---- MODULE Spec2Model ----
(***************************************************************************)
(* A model of the dollar utility library: the Version type                 *)
(* (lib/Version.js), Version.parse, Device.getType (lib/Device.js), and    *)
(* snake2camel, randomString, mergeConfig and isNumericMap of the          *)
(* library's index file.                                                   *)
(*                                                                         *)
(* JavaScript values are records [t |-> <type tag>, v |-> <payload>].      *)
(* A string is the sequence of its characters, each a one-character        *)
(* TLA+ string, so that splitting, matching and replacing are computed     *)
(* character by character as the code computes them.                       *)
(***************************************************************************)
EXTENDS Integers, Sequences, FiniteSets, TLC

(***************************************************************************)
(* Bounds of the model.                                                    *)
(***************************************************************************)
\* the largest number of dot-separated segments of a generated version string
MaxSegs == 2
\* the largest number of digit groups of a generated Version.parse input
MaxGroups == 4
\* the largest number of elements of a generated array, of entries of a
\* generated object
MaxLen == 2

(***************************************************************************)
(* JavaScript values.                                                      *)
(***************************************************************************)
Undefined == [t |-> "undefined", v |-> 0]
Null == [t |-> "null", v |-> 0]
Num(n) == [t |-> "number", v |-> n]
Bool(b) == [t |-> "boolean", v |-> b]
Str(s) == [t |-> "string", v |-> s]
Fn == [t |-> "function", v |-> 0]
Arr(s) == [t |-> "array", v |-> s]
Obj(s) == [t |-> "object", v |-> s]
\* an instance of Version: its only field is this.ver
VersionObj(s) == [t |-> "Version", v |-> s]

\* lodash's type predicates, as the library uses them
isString(x) == x.t = "string"
isNumber(x) == x.t = "number"
isBoolean(x) == x.t = "boolean"
isNull(x) == x.t = "null"
isUndefined(x) == x.t = "undefined"
isFunction(x) == x.t = "function"
isArray(x) == x.t = "array"
\* _.isObject: arrays, functions and objects; never a primitive
isObject(x) == x.t \in {"object", "array", "function", "Version"}

(***************************************************************************)
(* Characters and strings.                                                 *)
(***************************************************************************)
Digits == {"0", "1", "2", "3", "4", "5", "6", "7", "8", "9"}
IsDigit(c) == c \in Digits
DigitVal(c) ==
  CASE c = "0" -> 0 [] c = "1" -> 1 [] c = "2" -> 2 [] c = "3" -> 3
    [] c = "4" -> 4 [] c = "5" -> 5 [] c = "6" -> 6 [] c = "7" -> 7
    [] c = "8" -> 8 [] c = "9" -> 9

RECURSIVE Join(_, _)
\* Array.prototype.join: the strings of ss with sep between them
Join(ss, sep) ==
  IF ss = <<>> THEN <<>>
  ELSE IF Len(ss) = 1 THEN Head(ss)
  ELSE Head(ss) \o sep \o Join(Tail(ss), sep)

RECURSIVE SplitFrom(_, _, _)
\* String.prototype.split(c): cur is the piece being read
SplitFrom(s, c, cur) ==
  IF s = <<>> THEN <<cur>>
  ELSE IF Head(s) = c THEN <<cur>> \o SplitFrom(Tail(s), c, <<>>)
  ELSE SplitFrom(Tail(s), c, Append(cur, Head(s)))

Split(s, c) == SplitFrom(s, c, <<>>)

RECURSIVE DigitsValue(_, _)
\* the decimal value of the leading digits of s, acc the value read so far
DigitsValue(s, acc) ==
  IF s = <<>> \/ ~IsDigit(Head(s)) THEN acc
  ELSE DigitsValue(Tail(s), 10 * acc + DigitVal(Head(s)))

(***************************************************************************)
(* compare-version, the three-way comparison the Version methods call.     *)
(* Segments are compared left to right as integers, a missing segment      *)
(* counts as zero, and so does a segment that is no number.                *)
(***************************************************************************)
SegmentValue(segs, i) == IF i <= Len(segs) THEN DigitsValue(segs[i], 0) ELSE 0

RECURSIVE CompareFrom(_, _, _)
CompareFrom(a, b, i) ==
  IF i > Len(a) /\ i > Len(b) THEN 0
  ELSE IF SegmentValue(a, i) > SegmentValue(b, i) THEN 1
  ELSE IF SegmentValue(a, i) < SegmentValue(b, i) THEN -1
  ELSE CompareFrom(a, b, i + 1)

\* v1 is this.ver, a string; v2 is a string or a wrapped Version
compareVersion(v1, v2) == CompareFrom(Split(v1, "."), Split(v2.v, "."), 1)

(***************************************************************************)
(* lib/Version.js                                                          *)
(***************************************************************************)
\* the constructor: throws unless ver is a string, else stores it
Version(ver) ==
  IF ~isString(ver) THEN [threw |-> TRUE, obj |-> Undefined]
  ELSE [threw |-> FALSE, obj |-> VersionObj(ver.v)]

lt_swapped(this, other) == compareVersion(this.v, other) <= 0
lt(this, other) == compareVersion(this.v, other) < 0

lte(this, other) == compareVersion(this.v, other) <= 0

gt(this, other) == compareVersion(this.v, other) > 0

gte(this, other) == compareVersion(this.v, other) >= 0

eq(this, other) == compareVersion(this.v, other) = 0

\* a toString that writes the parsed segments back, dropping the empty ones
toString_reserialized(this) ==
  Join(SelectSeq(Split(this.v, "."), LAMBDA seg : seg # <<>>), <<".">>)
toString(this) == this.v

(***************************************************************************)
(* JavaScript truthiness and the || operator.                              *)
(***************************************************************************)
Truthy(x) ==
  CASE x.t = "undefined" -> FALSE
    [] x.t = "null" -> FALSE
    [] x.t = "boolean" -> x.v
    [] x.t = "number" -> x.v # 0
    [] x.t = "string" -> x.v # <<>>
    [] OTHER -> TRUE

OrElse(x, y) == IF Truthy(x) THEN x ELSE y

(***************************************************************************)
(* versionPattern (Version.js, line 8): one to three repetitions of        *)
(* "digits, then any number of dots" (group 1), any whitespace, "(",       *)
(* digits (group 2), ")", any whitespace, the end; anchored at the start.  *)
(* Matched as a backtracking matcher does: a position is the index of the  *)
(* next character to read, and each piece of the pattern maps a position   *)
(* to the set of positions it can end at.                                  *)
(***************************************************************************)
IsSpace(c) == c \in {" ", "\t"}

\* the positions q >= p with s[p..q-1] all satisfying the class
RECURSIVE RunEnds(_, _, _)
RunEnds(s, p, cls) ==
  IF p <= Len(s) /\ s[p] \in cls THEN {p} \cup RunEnds(s, p + 1, cls) ELSE {p}

Spaces == {" ", "\t"}

\* one or more digits from p
DigitsEnds(s, p) == RunEnds(s, p, Digits) \ {p}

\* any number of dots from p
DotsEnds(s, p) == RunEnds(s, p, {"."})

\* any whitespace from p
SpaceEnds(s, p) == RunEnds(s, p, Spaces)

\* one repetition of "digits, dots" from any position of ps
GroupEnds(s, ps) ==
  UNION {UNION {DotsEnds(s, d) : d \in DigitsEnds(s, p)} : p \in ps}

\* the {1,3} of the pattern
MaxRepeat == 3

RECURSIVE RepeatEnds(_, _, _)
\* the positions after 1 to n repetitions of "digits, dots" from ps
RepeatEnds(s, ps, n) ==
  IF n = 0 \/ ps = {} THEN {}
  ELSE LET one == GroupEnds(s, ps) IN one \cup RepeatEnds(s, one, n - 1)

\* the rest of the pattern from e (whitespace, the parenthesized digits,
\* whitespace, the end): group 2 as <<first, last + 1>>, for each way to match
BuildCaptures_optional(s, e) ==
  {<<p + 1, d>> : <<p, d>> \in
     {pd \in (1..Len(s)) \X (1..Len(s)) :
        /\ pd[1] \in SpaceEnds(s, e)
        /\ s[pd[1]] = "("
        /\ pd[2] \in DigitsEnds(s, pd[1] + 1)
        /\ s[pd[2]] = ")"
        /\ Len(s) + 1 \in SpaceEnds(s, pd[2] + 1)}}
    \cup (IF Len(s) + 1 \in SpaceEnds(s, e) THEN {<<e, e>>} ELSE {})
BuildCaptures(s, e) ==
  {<<p + 1, d>> : <<p, d>> \in
     {pd \in (1..Len(s)) \X (1..Len(s)) :
        /\ pd[1] \in SpaceEnds(s, e)
        /\ s[pd[1]] = "("
        /\ pd[2] \in DigitsEnds(s, pd[1] + 1)
        /\ s[pd[2]] = ")"
        /\ Len(s) + 1 \in SpaceEnds(s, pd[2] + 1)}}

\* every way the whole pattern matches s: <<end of group 1>> \o group 2
MatchSet(s) ==
  UNION {{<<e, bc[1], bc[2]>> : bc \in BuildCaptures(s, e)} :
           e \in RepeatEnds(s, {1}, MaxRepeat)}

\* String.prototype.match(versionPattern): null, or the captured groups
match(s) ==
  IF MatchSet(s) = {} THEN Null
  ELSE LET m == CHOOSE m \in MatchSet(s) : TRUE IN
    Arr(<<Str(s), Str(SubSeq(s, 1, m[1] - 1)), Str(SubSeq(s, m[2], m[3] - 1))>>)

\* matches[i] of a JavaScript array (0-based); undefined past its end
Index(a, i) == IF i + 1 <= Len(a.v) THEN a.v[i + 1] ELSE Undefined

\* Version.parse without its _.isString guard: match is called on anything
parse_unguarded(versionString) ==
  IF ~isString(versionString)
    THEN [threw |-> TRUE, version |-> Undefined, build |-> Undefined]
    ELSE LET matches == OrElse(match(versionString.v), Arr(<<>>))
             version == Version(OrElse(Index(matches, 1), Str(<<>>)))
         IN [threw |-> version.threw,
             version |-> version.obj,
             build |-> OrElse(Index(matches, 2), Num(0))]
\* Version.parse
parse(versionString) ==
  LET matches == IF isString(versionString)
                   THEN OrElse(match(versionString.v), Arr(<<>>))
                   ELSE Arr(<<>>)
      version == Version(OrElse(Index(matches, 1), Str(<<>>)))
  IN [threw |-> version.threw,
      version |-> version.obj,
      build |-> OrElse(Index(matches, 2), Num(0))]

(***************************************************************************)
(* snake2camel and isPrimitive, of the library's index file.               *)
(* An object is the sequence of its entries [k |-> key, v |-> value] in    *)
(* insertion order, its keys distinct.  A call that throws yields Thrown.  *)
(***************************************************************************)
Thrown == [t |-> "TypeError", v |-> 0]
IsThrown(x) == x.t = "TypeError"

LowerCase == <<"a", "b", "c", "d", "e", "f", "g", "h", "i", "j", "k", "l", "m",
               "n", "o", "p", "q", "r", "s", "t", "u", "v", "w", "x", "y", "z">>
UpperCase == <<"A", "B", "C", "D", "E", "F", "G", "H", "I", "J", "K", "L", "M",
               "N", "O", "P", "Q", "R", "S", "T", "U", "V", "W", "X", "Y", "Z">>
IsLower(c) == \E i \in 1..Len(LowerCase) : LowerCase[i] = c
\* String.prototype.toUpperCase on one character
toUpperCase(c) ==
  IF IsLower(c) THEN UpperCase[CHOOSE i \in 1..Len(LowerCase) : LowerCase[i] = c]
  ELSE c

RECURSIVE replace_keepcase(_)
\* the replacement without toUpperCase: the underscore goes, the letter stays
replace_keepcase(s) ==
  IF s = <<>> THEN <<>>
  ELSE IF Len(s) >= 2 /\ s[1] = "_" /\ IsLower(s[2])
    THEN <<s[2]>> \o replace_keepcase(SubSeq(s, 3, Len(s)))
  ELSE <<Head(s)>> \o replace_keepcase(Tail(s))

RECURSIVE replace(_)
\* s.replace(/_([a-z])/g, g => g[1].toUpperCase()): the matches are found left
\* to right and do not overlap
replace(s) ==
  IF s = <<>> THEN <<>>
  ELSE IF Len(s) >= 2 /\ s[1] = "_" /\ IsLower(s[2])
    THEN <<toUpperCase(s[2])>> \o replace(SubSeq(s, 3, Len(s)))
  ELSE <<Head(s)>> \o replace(Tail(s))

isPrimitive(val) ==
  isNumber(val) \/ isBoolean(val) \/ isString(val) \/ isNull(val) \/ isUndefined(val)

\* a falsy value or a number is returned, anything else is
\* sent replace, which only a string has
_snake2camel(snake) ==
  IF ~Truthy(snake) \/ isNumber(snake) THEN snake
  ELSE IF isString(snake) THEN Str(replace(snake.v))
  ELSE Thrown

\* values[key] = val: an existing key keeps its place and takes the new value
Put(values, key, val) ==
  IF \E i \in 1..Len(values) : values[i].k = key
    THEN [i \in 1..Len(values) |->
            IF values[i].k = key THEN [k |-> key, v |-> val] ELSE values[i]]
    ELSE Append(values, [k |-> key, v |-> val])

\* the own enumerable entries _.each visits: a function has none
Entries(x) == IF x.t = "object" THEN x.v ELSE <<>>

RECURSIVE _snakeArr2camel(_)
RECURSIVE _snakeObj2camel(_)
RECURSIVE EachEntry(_, _)

\* the callback of _.map in _snakeArr2camel
MapElement(obj) ==
  IF isPrimitive(obj) THEN _snake2camel(obj)
  ELSE IF isArray(obj) THEN _snakeArr2camel(obj)
  ELSE _snakeObj2camel(obj)

\* _snakeArr2camel
_snakeArr2camel(snake) ==
  IF ~Truthy(snake) THEN snake
  ELSE LET rs == [i \in 1..Len(snake.v) |-> MapElement(snake.v[i])] IN
    IF \E i \in 1..Len(rs) : IsThrown(rs[i]) THEN Thrown ELSE Arr(rs)

\* the callback of _.each in _snakeObj2camel, over the entries left to visit
EachEntry(entries, values) ==
  IF entries = <<>> THEN Obj(values)
  ELSE LET val == Head(entries).v
           key == _snake2camel(Str(Head(entries).k)).v
       IN IF isFunction(val) THEN EachEntry(Tail(entries), values)
          ELSE LET new == IF isPrimitive(val) THEN val
                          ELSE IF isArray(val) THEN _snakeArr2camel(val)
                          ELSE _snakeObj2camel(val)
               IN IF IsThrown(new) THEN Thrown
                  ELSE EachEntry(Tail(entries), Put(values, key, new))

\* _snakeObj2camel
_snakeObj2camel(snake) ==
  IF ~Truthy(snake) THEN snake ELSE EachEntry(Entries(snake), <<>>)

\* snake2camel without its first test
snake2camel_unguarded(snake) ==
  IF isString(snake) THEN _snake2camel(snake)
  ELSE IF isArray(snake) THEN _snakeArr2camel(snake)
  ELSE IF isObject(snake) THEN _snakeObj2camel(snake)
  ELSE Null
\* snake2camel returning what it was given where the code returns null
snake2camel_passthrough(snake) ==
  IF ~Truthy(snake) THEN snake
  ELSE IF isString(snake) THEN _snake2camel(snake)
  ELSE IF isArray(snake) THEN _snakeArr2camel(snake)
  ELSE IF isObject(snake) THEN _snakeObj2camel(snake)
  ELSE snake
\* snake2camel
snake2camel(snake) ==
  IF ~Truthy(snake) THEN snake
  ELSE IF isString(snake) THEN _snake2camel(snake)
  ELSE IF isArray(snake) THEN _snakeArr2camel(snake)
  ELSE IF isObject(snake) THEN _snakeObj2camel(snake)
  ELSE Null

(***************************************************************************)
(* The state.  A Version under test and the operand of its comparisons;    *)
(* the last call of Version.parse; the last call of snake2camel.           *)
(***************************************************************************)
VARIABLES
  ver,            \* the Version object under test (this)
  arg,            \* the string its constructor was given
  ver2,           \* the operand of the comparisons, as it is now
  arg2,           \* the operand of the comparisons, as the caller built it
  called,         \* the comparison methods called so far
  truth,          \* those of them that returned true
  ret,            \* what the last toString() returned, Undefined before any
  versionString,  \* the argument of the last Version.parse
  parsed,         \* what it returned
  snake,          \* the argument of the last snake2camel
  out,            \* what it returned
  again,          \* what snake2camel returned when given out
  given,          \* the opts the caller passed to randomString, if any
  opts,           \* the opts object of randomString, as it is now
  outcomes,       \* crypto.randomBytes calls so far: TRUE where it succeeded
  calls,          \* the arguments of each invocation of the caller's callback
  pc,             \* where randomString is: "caller", "randomBytes", "returned"
  map,            \* the first argument of the last isNumericMap
  fastCheck,      \* its second argument
  numeric,        \* what it returned
  platform,       \* the arguments of the last Device.getType
  deviceType,     \* what it returned
  config,         \* the caller's config object, as it is now
  config0,        \* the same object as the caller built it
  envName,        \* process.env.NODE_ENV at the last mergeConfig
  merged          \* what the last mergeConfig returned

vars == <<ver, arg, ver2, arg2, called, truth, ret,
          versionString, parsed, snake, out, again,
          given, opts, outcomes, calls, pc, map, fastCheck, numeric,
          platform, deviceType, config, config0, envName, merged>>

versionVars == <<ver, arg, ver2, arg2, called, truth, ret>>
parseVars == <<versionString, parsed>>
snakeVars == <<snake, out, again>>
randomVars == <<given, opts, outcomes, calls, pc>>
mapVars == <<map, fastCheck, numeric>>
deviceVars == <<platform, deviceType>>
configVars == <<config, config0, envName, merged>>
utilVars == <<randomVars, mapVars, deviceVars, configVars>>

\* a component no operation of which has been called
VersionIdle ==
  /\ ver = Undefined /\ arg = Undefined /\ ver2 = Undefined /\ arg2 = Undefined
  /\ called = {} /\ truth = {} /\ ret = Undefined
ParseIdle == versionString = Undefined /\ parsed = Undefined
SnakeIdle == snake = Undefined /\ out = Undefined /\ again = Undefined
RandomIdle ==
  /\ given = Undefined /\ opts = Undefined
  /\ outcomes = <<>> /\ calls = <<>> /\ pc = "caller"
MapIdle == map = Undefined /\ fastCheck = Undefined /\ numeric = Undefined
DeviceIdle == platform = <<>> /\ deviceType = Undefined
ConfigIdle ==
  /\ config = Undefined /\ config0 = Undefined
  /\ envName = Undefined /\ merged = Undefined
CoreIdle == VersionIdle /\ ParseIdle /\ SnakeIdle
UtilIdle == RandomIdle /\ MapIdle /\ DeviceIdle /\ ConfigIdle

(***************************************************************************)
(* The inputs of the Version operations.                                   *)
(***************************************************************************)
VerSegs == {<<"0">>, <<"2">>, <<"1", "0">>}

\* well-formed dotted version strings of up to MaxSegs segments
DottedStrings ==
  UNION {{Join(f, <<".">>) : f \in [1..n -> VerSegs]} : n \in 1..MaxSegs}

\* strings that are no version
JunkStrings == {<<>>, <<"a">>, <<"2", ".", "a">>, <<"2", ".", ".", "0">>}

VersionStrings == DottedStrings \cup JunkStrings

\* a comparison is given a string or an already wrapped Version
Operands ==
  {Str(s) : s \in VersionStrings}
    \cup {VersionObj(s) : s \in {<<"2">>, <<"2", ".", "0">>, <<"1", "0", ".", "2">>}}

Methods == {"lt", "lte", "gt", "gte", "eq"}

\* a Version built from a string, and the operand its methods will be given
InitVersion ==
  /\ \E s \in VersionStrings : ver = Version(Str(s)).obj /\ arg = Str(s)
  /\ \E v2 \in Operands : ver2 = v2 /\ arg2 = v2
  /\ called = {}
  /\ truth = {}
  /\ ret = Undefined
  /\ versionString = Undefined
  /\ parsed = Undefined
  /\ snake = Undefined
  /\ out = Undefined
  /\ again = Undefined
  /\ UtilIdle

\* the bookkeeping of one comparison call: method m returned r.  The methods
\* assign nothing: this.ver and the operand are as they were.
Compared(m, r) ==
  /\ called' = called \cup {m}
  /\ truth' = (truth \ {m}) \cup (IF r THEN {m} ELSE {})
  /\ UNCHANGED <<ver, arg, ver2, arg2, ret, parseVars, snakeVars, utilVars>>

CallLt == Compared("lt", lt(ver, ver2))

CallLte == Compared("lte", lte(ver, ver2))

CallGt == Compared("gt", gt(ver, ver2))

CallGte == Compared("gte", gte(ver, ver2))

CallEq == Compared("eq", eq(ver, ver2))

CallToString ==
  /\ ret' = Str(toString(ver))
  /\ UNCHANGED <<ver, arg, ver2, arg2, called, truth, parseVars, snakeVars, utilVars>>

NextVersion ==
  \/ CallLt
  \/ CallLte
  \/ CallGt
  \/ CallGte
  \/ CallEq
  \/ CallToString

SpecVersion == InitVersion /\ [][NextVersion]_vars

(***************************************************************************)
(* Claims about Version.                                                   *)
(***************************************************************************)
\* a well-formed dotted version string: non-empty runs of digits, one dot between
IsDotted(s) ==
  LET segs == Split(s, ".") IN
    \A i \in 1..Len(segs) :
      /\ segs[i] # <<>>
      /\ \A j \in 1..Len(segs[i]) : IsDigit(segs[i][j])

BothDotted == IsDotted(ver.v) /\ isString(ver2) /\ IsDotted(ver2.v)

\* C1: for dotted version strings a and b, exactly one of lt, eq, gt of
\* Version(a) against b is true, gte(b) = (gt(b) or eq(b)) and
\* lte(b) = (lt(b) or eq(b)).
C1_Trichotomy ==
  BothDotted =>
    /\ {"lt", "eq", "gt"} \subseteq called
         => Cardinality(truth \cap {"lt", "eq", "gt"}) = 1
    /\ {"gte", "gt", "eq"} \subseteq called
         => (("gte" \in truth) <=> ("gt" \in truth \/ "eq" \in truth))
    /\ {"lte", "lt", "eq"} \subseteq called
         => (("lte" \in truth) <=> ("lt" \in truth \/ "eq" \in truth))

\* all five methods were called on a pair of different lengths, a the greater
C1_Witness ==
  /\ BothDotted
  /\ called = Methods
  /\ Len(Split(ver.v, ".")) # Len(Split(ver2.v, "."))
  /\ truth = {"gt", "gte"}

\* C2: a Version built from the string s returns exactly s from toString(),
\* and it still does after any comparisons: no comparison changes the raw
\* string of the Version or of its operand.
C2_RawStringKept ==
  /\ Str(ver.v) = arg
  /\ ret # Undefined => ret = arg
  /\ ver2 = arg2

\* toString() after comparisons against a wrapped Version, on a string that
\* a normalisation would change
C2_Witness ==
  /\ arg = Str(<<"2", ".", ".", "0">>)
  /\ ret = arg
  /\ called = Methods
  /\ ver2 = VersionObj(<<"2", ".", "0">>)

(***************************************************************************)
(* Version.parse: the inputs, and the call.                                *)
(***************************************************************************)
ParseSegs == {<<"1">>, <<"2", "3">>}

\* zero to MaxGroups digit groups with a dot between them
ParseDotted ==
  UNION {{Join(f, <<".">>) : f \in [1..n -> ParseSegs]} : n \in 0..MaxGroups}

ParseBuilds ==
  {<<>>, <<"(", "4", "5", ")">>, <<"(", "0", ")">>, <<"(", ")">>, <<"(", "a", ")">>}

\* [leading space] groups [a trailing dot] [space] [build] [trailing space]
ParseStrings ==
  {lead \o d \o dot \o mid \o b \o trail :
     lead \in {<<>>, <<" ">>}, d \in ParseDotted, dot \in {<<>>, <<".">>},
     mid \in {<<>>, <<" ">>}, b \in ParseBuilds, trail \in {<<>>, <<"\t">>}}

ParseInputs ==
  {Str(s) : s \in ParseStrings} \cup {Undefined, Null, Num(45), Arr(<<>>)}

\* parsed before Version.parse has returned
NoResult == [threw |-> FALSE, version |-> Undefined, build |-> Undefined]

InitParse ==
  /\ versionString \in ParseInputs
  /\ parsed = NoResult
  /\ ver = Undefined
  /\ arg = Undefined
  /\ ver2 = Undefined
  /\ arg2 = Undefined
  /\ called = {}
  /\ truth = {}
  /\ ret = Undefined
  /\ snake = Undefined
  /\ out = Undefined
  /\ again = Undefined
  /\ UtilIdle

CallParse ==
  /\ parsed' = parse(versionString)
  /\ UNCHANGED <<versionString, versionVars, snakeVars, utilVars>>

NextParse == CallParse

SpecParse == InitParse /\ [][NextParse]_vars

(***************************************************************************)
(* Claims about Version.parse.  The shape of an input is read off the      *)
(* string by a scanner of its own, not by the matcher above.               *)
(***************************************************************************)
RECURSIVE DropWhile(_, _)
DropWhile(s, cls) ==
  IF s # <<>> /\ Head(s) \in cls THEN DropWhile(Tail(s), cls) ELSE s

RECURSIVE DropEndWhile(_, _)
DropEndWhile(s, cls) ==
  IF s # <<>> /\ s[Len(s)] \in cls
    THEN DropEndWhile(SubSeq(s, 1, Len(s) - 1), cls) ELSE s

Trim(s) == DropEndWhile(DropWhile(s, Spaces), Spaces)

\* the longest prefix of s made of digits and dots, and what follows it
DottedPrefix(s) == SubSeq(s, 1, Len(s) - Len(DropWhile(s, Digits \cup {"."})))
AfterDotted(s) == DropWhile(s, Digits \cup {"."})

\* the number of runs of digits in a string of digits and dots
DigitRuns(s) == Cardinality({i \in 1..Len(s) :
                   IsDigit(s[i]) /\ (i = 1 \/ ~IsDigit(s[i - 1]))})

\* "(" digits ")" between optional whitespace
IsBuildSuffix(r) ==
  LET b == Trim(r) IN
    /\ Len(b) >= 3
    /\ b[1] = "("
    /\ b[Len(b)] = ")"
    /\ \A i \in 2..(Len(b) - 1) : IsDigit(b[i])

BuildDigits(r) == LET b == Trim(r) IN SubSeq(b, 2, Len(b) - 1)

\* one to three dot-separated digit groups
IsShortDotted(s) == s # <<>> /\ IsDotted(s) /\ Len(Split(s, ".")) <= 3

\* '<version> (<digits>)': the dotted groups, then a build suffix
HasVersionAndBuild(s) ==
  IsShortDotted(DottedPrefix(s)) /\ IsBuildSuffix(AfterDotted(s))

\* what the pattern accepts, read off the string: it starts with a digit,
\* its digits and dots hold at most three runs of digits, and a build
\* suffix follows
Recognized(s) ==
  /\ DottedPrefix(s) # <<>>
  /\ IsDigit(s[1])
  /\ DigitRuns(DottedPrefix(s)) <= 3
  /\ IsBuildSuffix(AfterDotted(s))

ParseCalled == parsed # NoResult

EmptyResult == parsed.version = VersionObj(<<>>) /\ parsed.build = Num(0)

\* C3: Version.parse returns build as an integer: the integer value of the
\* parenthesized digits of an input '<version> (<digits>)' (45 for
\* '1.2.3 (45)'), not the captured digit string; the integer 0 when nothing
\* matches.
C3_BuildIsInteger ==
  ParseCalled =>
    /\ parsed.build.t = "number"
    /\ (isString(versionString) /\ HasVersionAndBuild(versionString.v))
         => parsed.build =
              Num(DigitsValue(BuildDigits(AfterDotted(versionString.v)), 0))
    /\ (~isString(versionString) \/ ~Recognized(versionString.v))
         => parsed.build = Num(0)

\* C4 as claimed: the build number and the surrounding whitespace are
\* optional: an input of one to three dot-separated digit groups with no
\* build suffix, with or without whitespace around it, parses to the version
\* wrapping the dotted portion and build 0.
C4_BuildAndSpaceOptional ==
  (ParseCalled /\ isString(versionString)
     /\ IsShortDotted(Trim(versionString.v)))
    => /\ parsed.version = VersionObj(Trim(versionString.v))
       /\ parsed.build = Num(0)

\* C4, amended: only the whitespace before and after the parenthesized build
\* number is optional; the build number is required and no leading
\* whitespace is accepted.  An input of one to three dot-separated digit
\* groups with no build suffix, or an input with leading whitespace, parses
\* to the empty-string version and build 0; one to three groups followed by
\* a build suffix, with or without whitespace before and after the suffix,
\* parse to the version wrapping the dotted portion.
C4_BuildRequired ==
  (ParseCalled /\ isString(versionString)) =>
    LET s == versionString.v IN
      /\ IsShortDotted(Trim(s)) => EmptyResult
      /\ (s # <<>> /\ IsSpace(s[1])) => EmptyResult
      /\ HasVersionAndBuild(s) => parsed.version = VersionObj(DottedPrefix(s))

\* '1.23.1' with no build suffix was parsed, to the empty version
C4_Witness ==
  /\ versionString = Str(<<"1", ".", "2", "3", ".", "1">>)
  /\ ParseCalled
  /\ EmptyResult

\* C5: Version.parse never throws, and an input that is no string or does
\* not match the pattern, one of more than three dot-separated digit groups
\* included, parses to the empty-string version and build 0.
C5_NoMatchIsEmpty ==
  ParseCalled =>
    /\ ~parsed.threw
    /\ (~isString(versionString) \/ ~Recognized(versionString.v)) => EmptyResult
    /\ (isString(versionString)
          /\ DigitRuns(DottedPrefix(versionString.v)) > 3) => EmptyResult

\* four digit groups and a well-formed build suffix parsed to the empty version
C5_Witness ==
  /\ versionString =
       Str(<<"1", ".", "2", "3", ".", "1", ".", "1", " ", "(", "4", "5", ")">>)
  /\ ParseCalled
  /\ ~parsed.threw
  /\ EmptyResult

\* what the matcher accepts is what the scanner recognizes, one way only
MatcherAgreesWithScanner ==
  isString(versionString) =>
    /\ (MatchSet(versionString.v) # {}) <=> Recognized(versionString.v)
    /\ Cardinality(MatchSet(versionString.v)) <= 1

(***************************************************************************)
(* snake2camel: the inputs, and the call.                                  *)
(***************************************************************************)
Primitives ==
  {Num(0), Num(5), Bool(TRUE), Bool(FALSE), Str(<<>>), Str(<<"a", "_", "b">>),
   Null, Undefined}

\* what an array or an object may hold at the innermost level
Leaves == Primitives \cup {Fn}

Keys == {<<"a", "_", "b">>, <<"a", "B">>, <<"_", "a", "_", "_", "b", "_", "1">>}

\* the arrays of up to MaxLen values of vs
ArraysOf(vs) == UNION {{Arr(f) : f \in [1..n -> vs]} : n \in 0..MaxLen}

\* the objects of up to MaxLen entries, keys distinct, values of vs
ObjectsOf(vs) ==
  UNION {{Obj([i \in 1..n |-> [k |-> ks[i], v |-> f[i]]]) :
            ks \in {q \in [1..n -> Keys] :
                      \A i, j \in 1..n : i # j => q[i] # q[j]},
            f \in [1..n -> vs]} : n \in 0..MaxLen}

Flat == ArraysOf(Leaves) \cup ObjectsOf(Leaves)

\* an array or an object around one nested array or object
Nested ==
  {Arr(<<x>>) : x \in Flat}
    \cup {Obj(<<[k |-> key, v |-> x]>>) :
            key \in {<<"a", "_", "b">>, <<"a", "B">>}, x \in Flat}

SnakeInputs == Leaves \cup Flat \cup Nested

\* out before snake2camel has returned
Pending == [t |-> "pending", v |-> 0]

InitSnake ==
  /\ snake \in SnakeInputs
  /\ out = Pending
  /\ again = Pending
  /\ UtilIdle
  /\ ver = Undefined
  /\ arg = Undefined
  /\ ver2 = Undefined
  /\ arg2 = Undefined
  /\ called = {}
  /\ truth = {}
  /\ ret = Undefined
  /\ versionString = Undefined
  /\ parsed = NoResult

CallSnake2camel ==
  /\ out' = snake2camel(snake)
  /\ UNCHANGED <<snake, again, versionVars, parseVars, utilVars>>

\* snake2camel called on what the first call returned
CallSnake2camelAgain ==
  /\ out # Pending
  /\ ~IsThrown(out)
  /\ again' = snake2camel(out)
  /\ UNCHANGED <<snake, out, versionVars, parseVars, utilVars>>

NextSnake ==
  \/ CallSnake2camel
  \/ CallSnake2camelAgain

SpecSnake == InitSnake /\ [][NextSnake]_vars

(***************************************************************************)
(* Claims about snake2camel.                                               *)
(***************************************************************************)
SnakeCalled == out # Pending

RECURSIVE HasFunction(_)
\* a function somewhere in x
HasFunction(x) ==
  CASE x.t = "function" -> TRUE
    [] x.t = "array" -> \E i \in 1..Len(x.v) : HasFunction(x.v[i])
    [] x.t = "object" -> \E i \in 1..Len(x.v) : HasFunction(x.v[i].v)
    [] OTHER -> FALSE

RECURSIVE HasFunctionElement(_)
\* a function as an element of an array somewhere in x
HasFunctionElement(x) ==
  CASE x.t = "array" ->
         \E i \in 1..Len(x.v) : isFunction(x.v[i]) \/ HasFunctionElement(x.v[i])
    [] x.t = "object" -> \E i \in 1..Len(x.v) : HasFunctionElement(x.v[i].v)
    [] OTHER -> FALSE

\* the key-style conversion, position by position: an underscore right before
\* a lowercase letter goes, and that letter is uppercased
Qualifies(s, i) == i >= 1 /\ i < Len(s) /\ s[i] = "_" /\ IsLower(s[i + 1])

RECURSIVE CamelFrom(_, _)
CamelFrom(s, i) ==
  IF i > Len(s) THEN <<>>
  ELSE (IF Qualifies(s, i) THEN <<>>
        ELSE IF Qualifies(s, i - 1) THEN <<toUpperCase(s[i])>>
        ELSE <<s[i]>>) \o CamelFrom(s, i + 1)

CamelKey(s) == CamelFrom(s, 1)

RECURSIVE ExpectedArray(_)
RECURSIVE ExpectedMapping(_, _)

\* a sequence keeps its length and order; a string element is converted, any
\* other primitive is kept, a nested sequence or mapping is transformed
ExpectedArray(a) ==
  Arr([i \in 1..Len(a.v) |->
         LET x == a.v[i] IN
           IF isString(x) THEN Str(CamelKey(x.v))
           ELSE IF isArray(x) THEN ExpectedArray(x)
           ELSE IF x.t = "object" THEN ExpectedMapping(x.v, <<>>)
           ELSE x])

\* the mapping built from the entries in order: callable values dropped, keys
\* converted, primitive values kept, nested values transformed
ExpectedMapping(entries, acc) ==
  IF entries = <<>> THEN Obj(acc)
  ELSE LET x == Head(entries).v
           key == CamelKey(Head(entries).k)
       IN IF isFunction(x) THEN ExpectedMapping(Tail(entries), acc)
          ELSE ExpectedMapping(Tail(entries),
                 Put(acc, key,
                     IF isArray(x) THEN ExpectedArray(x)
                     ELSE IF x.t = "object" THEN ExpectedMapping(x.v, <<>>)
                     ELSE x))

\* C6: snake2camel never raises: for every input built from numbers,
\* booleans, strings, null, undefined, sequences and mappings, a boolean true
\* as a sequence element included, the call returns a value, and a root of
\* an unrecognized type yields null.
C6_NeverRaises ==
  (SnakeCalled /\ ~HasFunction(snake)) =>
    /\ ~IsThrown(out)
    /\ snake \in {Num(5), Bool(TRUE)} => out = Null

FalsyRoots == {Num(0), Bool(FALSE), Str(<<>>), Null, Undefined}

\* C7: for a falsy root input (0, false, the empty string, null, undefined)
\* snake2camel returns that same input.
C7_FalsyRootUnchanged ==
  (SnakeCalled /\ snake \in FalsyRoots) => out = snake

\* snake2camel(0) returned 0
C7_Witness == snake = Num(0) /\ SnakeCalled /\ out = Num(0)

NonStringPrimitive(x) == isPrimitive(x) /\ ~isString(x)

\* C8 as claimed: a primitive root input that is not a string, a non-zero
\* number included, is returned as-is.
C8_PrimitiveRootAsIs ==
  (SnakeCalled /\ NonStringPrimitive(snake)) => out = snake

\* C8, amended: a primitive root input that is not a string is returned
\* as-is when it is falsy (0, false, null, undefined), and yields null when
\* it is truthy (a non-zero number, true).
C8_TruthyPrimitiveRootIsNull ==
  (SnakeCalled /\ NonStringPrimitive(snake)) =>
    out = (IF snake \in FalsyRoots THEN snake ELSE Null)

\* snake2camel(5) returned null
C8_Witness == snake = Num(5) /\ SnakeCalled /\ out = Null

\* C9: for a mapping input, snake2camel returns a new mapping in which the
\* entries with a callable value are omitted, each remaining key is rewritten
\* (an underscore right before a lowercase letter replaced by that letter
\* uppercased), primitive values are kept unconverted under the converted
\* key, and nested sequences and mappings are transformed recursively.
C9_MappingTransformed ==
  (SnakeCalled /\ snake.t = "object" /\ ~HasFunctionElement(snake))
    => out = ExpectedMapping(snake.v, <<>>)

\* C10: for a sequence whose elements are all strings, numbers, null or
\* undefined, the result is a sequence of the same length whose element at
\* each index equals the input's.
C10_PrimitiveArrayUntouched ==
  (SnakeCalled /\ isArray(snake)
     /\ \A i \in 1..Len(snake.v) :
          snake.v[i].t \in {"string", "number", "null", "undefined"})
    => /\ isArray(out)
       /\ Len(out.v) = Len(snake.v)
       /\ \A i \in 1..Len(snake.v) : out.v[i] = snake.v[i]

\* what snake2camel returns when it returns: the transformation of its input
ReturnsExpected ==
  (SnakeCalled /\ ~IsThrown(out) /\ ~HasFunctionElement(snake)) =>
    /\ snake.t = "object" => out = ExpectedMapping(snake.v, <<>>)
    /\ isArray(snake) => out = ExpectedArray(snake)

\* C11: snake2camel is idempotent: whenever snake2camel(x) returns a value,
\* snake2camel(snake2camel(x)) equals snake2camel(x).
C11_Idempotent == again # Pending => again = out

\* both calls were made on an object whose first key the first call rewrote
C11_Witness ==
  /\ again # Pending
  /\ again = out
  /\ snake.t = "object"
  /\ Len(snake.v) = 2
  /\ snake.v[1].k = <<"_", "a", "_", "_", "b", "_", "1">>
  /\ out.v[1].k = <<"A", "_", "B", "_", "1">>

(***************************************************************************)
(* randomString (index, lines 154 to 177).  crypto.randomBytes either      *)
(* fails (err) or yields a buffer; the buffer of the n-th call is named n. *)
(***************************************************************************)
\* the largest opts.numTries a caller passes
MaxTries == 3
\* the calls of crypto.randomBytes followed
MaxAttempts == 6

DefaultNumTries == 3
Base64 == <<"b", "a", "s", "e", "6", "4">>
Hex == <<"h", "e", "x">>
EmptyOpts == [enc |-> Undefined, numTries |-> Undefined]
\* an Error object
Err == [t |-> "Error", v |-> 0]

\* buf.toString(enc): the text of buffer buf in encoding enc
bufToString(buf, enc) == [t |-> "string", v |-> <<enc, buf>>]

\* the two defaulting assignments at the head of the wrapped function
Defaulted(o) ==
  [enc |-> OrElse(o.enc, Str(Base64)),
   numTries |-> OrElse(o.numTries, Num(DefaultNumTries))]

GivenOpts ==
  {Undefined} \cup
  [enc : {Undefined, Str(Hex), Str(Base64)},
   numTries : {Undefined} \cup {Num(n) : n \in -1..MaxTries}]

InitRandom ==
  /\ given \in GivenOpts
  /\ opts = Undefined
  /\ outcomes = <<>>
  /\ calls = <<>>
  /\ pc = "caller"
  /\ CoreIdle /\ MapIdle /\ DeviceIdle /\ ConfigIdle

\* the caller's randomString(length, opts, callback) or
\* randomString(length, callback), up to the call of crypto.randomBytes
CallRandomString ==
  /\ pc = "caller"
  /\ opts' = Defaulted(IF given = Undefined THEN EmptyOpts ELSE given)
  /\ pc' = "randomBytes"
  /\ UNCHANGED <<given, outcomes, calls>>
  /\ UNCHANGED <<versionVars, parseVars, snakeVars, mapVars, deviceVars, configVars>>

\* the callback of crypto.randomBytes, with the recursive randomString it may
\* make up to the next call of crypto.randomBytes
RandomBytesDone(ok) ==
  /\ pc = "randomBytes"
  /\ Len(outcomes) < MaxAttempts
  /\ outcomes' = Append(outcomes, ok)
  /\ IF ~ok \/ opts.numTries.v = 3
       THEN IF opts.numTries.v > 0
         THEN /\ opts' = Defaulted([opts EXCEPT !.numTries = Num(@.v - 1)])
              /\ UNCHANGED <<calls, pc>>
         ELSE /\ calls' = Append(calls, <<IF ok THEN Null ELSE Err>>)
              /\ pc' = "returned"
              /\ UNCHANGED opts
       ELSE /\ calls' = Append(calls,
                 <<Null, bufToString(Len(outcomes) + 1, opts.enc.v)>>)
            /\ pc' = "returned"
            /\ UNCHANGED opts
  /\ UNCHANGED given
  /\ UNCHANGED <<versionVars, parseVars, snakeVars, mapVars, deviceVars, configVars>>

NextRandom ==
  \/ CallRandomString
  \/ \E ok \in BOOLEAN : RandomBytesDone(ok)

SpecRandom == InitRandom /\ [][NextRandom]_vars

\* the number of attempts the caller allowed: opts.numTries, 3 when absent
Allowed ==
  IF given = Undefined \/ ~Truthy(given.numTries)
    THEN DefaultNumTries ELSE given.numTries.v
AllFailed == \A i \in 1..Len(outcomes) : ~outcomes[i]

\* C12: when every call of the random-byte source fails, randomString makes
\* no more than numTries attempts (3 when the caller gave none).
C12_AtMostNumTries ==
  (AllFailed /\ Allowed >= 1) => Len(outcomes) <= Allowed

DefaultOptions == given = Undefined \/ given = EmptyOpts

\* C17: with default options, once the first generation has succeeded the
\* callback has been invoked once, with the text of the first buffer, and no
\* second generation is made.
C17_FirstSuccessIsReturned ==
  (DefaultOptions /\ outcomes # <<>> /\ outcomes[1]) =>
    /\ Len(outcomes) = 1
    /\ calls = << <<Null, bufToString(1, Base64)>> >>

(***************************************************************************)
(* isNumericMap (index, lines 371 to 390).                                 *)
(***************************************************************************)
\* the most keys a map under test has
MaxKeys == 3

\* a key that is an array index: digits, no leading zero
IsIndexKey(k) ==
  /\ k # <<>>
  /\ \A i \in 1..Len(k) : IsDigit(k[i])
  /\ (Len(k) = 1 \/ k[1] # "0")

RECURSIVE Ascending(_)
\* index keys in ascending numeric order
Ascending(S) ==
  IF S = {} THEN <<>>
  ELSE LET least == CHOOSE k \in S : \A j \in S : DigitsValue(k, 0) <= DigitsValue(j, 0)
       IN <<least>> \o Ascending(S \ {least})

\* the keys for (key in o) visits: index keys ascending, then the other keys
\* in insertion order
ForInKeys(o) ==
  LET keys == [i \in 1..Len(Entries(o)) |-> Entries(o)[i].k]
  IN Ascending({keys[i] : i \in {j \in 1..Len(keys) : IsIndexKey(keys[j])}})
       \o SelectSeq(keys, LAMBDA k : ~IsIndexKey(k))

\* isNaN of a string: Number(s) is a number for blank text and for decimal
\* digits with at most one point
isNaN(s) ==
  LET text == DropEndWhile(DropWhile(s, Spaces), Spaces)
  IN ~ \/ text = <<>>
       \/ /\ \A i \in 1..Len(text) : IsDigit(text[i]) \/ text[i] = "."
          /\ \E i \in 1..Len(text) : IsDigit(text[i])
          /\ Cardinality({i \in 1..Len(text) : text[i] = "."}) <= 1

RECURSIVE ForIn(_, _, _, _)
\* the loop from the i-th key on, isNumericMap still false: what is returned
ForIn(keys, i, counter, fast) ==
  IF i > Len(keys) THEN FALSE
  ELSE IF Truthy(fast)
    THEN IF counter # 0 THEN FALSE
         ELSE IF ~isNaN(keys[i]) THEN TRUE
         ELSE ForIn(keys, i + 1, counter + 1, fast)
    ELSE IF isNaN(keys[i]) THEN FALSE
         ELSE ForIn(keys, i + 1, counter, fast)

isNumericMap(m, fast) ==
  LET check == IF isUndefined(fast) THEN Bool(TRUE) ELSE fast
  IN IF ~isArray(m) THEN Bool(ForIn(ForInKeys(m), 1, 0, check)) ELSE Bool(FALSE)

MapKeys == {<<"1">>, <<"2">>, <<"1", ".", "5">>, <<"a", "b", "c">>, <<"1", "a">>, <<>>}
KeyLists ==
  {ks \in UNION {[1..n -> MapKeys] : n \in 0..MaxKeys} :
     \A i, j \in 1..Len(ks) : i # j => ks[i] # ks[j]}
Maps ==
  {Obj([i \in 1..Len(ks) |-> [k |-> ks[i], v |-> Str(ks[i])]]) : ks \in KeyLists}
    \cup {Arr(<<>>), Arr(<<Num(1), Num(2)>>)}

InitNumericMap ==
  /\ map \in Maps
  /\ fastCheck \in {Undefined, Bool(TRUE), Bool(FALSE)}
  /\ numeric = Pending
  /\ CoreIdle /\ RandomIdle /\ DeviceIdle /\ ConfigIdle

CallIsNumericMap ==
  /\ numeric' = isNumericMap(map, fastCheck)
  /\ UNCHANGED <<map, fastCheck>>
  /\ UNCHANGED <<versionVars, parseVars, snakeVars, randomVars, deviceVars, configVars>>

NextNumericMap == CallIsNumericMap

SpecNumericMap == InitNumericMap /\ [][NextNumericMap]_vars

\* C13: for a mapping that is not an array and has a key, isNumericMap(map,
\* false) returns true exactly when every key of the map is numeric.
C13_NonFastTrueIffAllNumeric ==
  (numeric # Pending /\ map.t = "object" /\ map.v # <<>>
     /\ fastCheck = Bool(FALSE))
    => (numeric = Bool(TRUE) <=> \A i \in 1..Len(map.v) : ~isNaN(map.v[i].k))

(***************************************************************************)
(* Device.getType (Device.js, lines 11 to 42).                             *)
(***************************************************************************)
\* the most arguments getType is given
MaxArgs == 2

TYPE_UNKNOWN == 0
TYPE_IPHONE == 1
TYPE_IPAD == 2
TYPE_ANDROID == 3
TYPE_WEB == 4

\* the property key a one-digit number becomes
PropertyKey(n) == <<CHOOSE c \in Digits : DigitVal(c) = n>>

\* exports.deviceTypes, its keys in the order they were assigned
deviceTypes ==
  Obj(<<[k |-> PropertyKey(TYPE_IPHONE), v |-> <<"i", "p", "h", "o", "n", "e">>],
        [k |-> PropertyKey(TYPE_ANDROID), v |-> <<"a", "n", "d", "r", "o", "i", "d">>],
        [k |-> PropertyKey(TYPE_IPAD), v |-> <<"i", "p", "a", "d">>],
        [k |-> PropertyKey(TYPE_WEB), v |-> <<"w", "e", "b">>]>>)

\* String.prototype.toLowerCase
toLowerCase(s) ==
  [i \in 1..Len(s) |->
     IF \E j \in 1..Len(UpperCase) : UpperCase[j] = s[i]
       THEN LowerCase[CHOOSE j \in 1..Len(UpperCase) : UpperCase[j] = s[i]]
       ELSE s[i]]

RECURSIVE indexOfFrom(_, _, _)
indexOfFrom(s, sub, i) ==
  IF i + Len(sub) > Len(s) THEN -1
  ELSE IF SubSeq(s, i + 1, i + Len(sub)) = sub THEN i
  ELSE indexOfFrom(s, sub, i + 1)
\* String.prototype.indexOf: the first position of sub in s, from 0, or -1
indexOf(s, sub) == indexOfFrom(s, sub, 0)

\* parseInt of a key made of digits
parseInt(k) == DigitsValue(k, 0)

\* deviceTypes[type]
NameOfKey(type) ==
  (CHOOSE e \in {deviceTypes.v[i] : i \in 1..Len(deviceTypes.v)} : e.k = type).v

RECURSIVE ForType_casesensitive(_, _, _)
ForType_casesensitive(types, i, platformString) ==
  IF i > Len(types) THEN TYPE_UNKNOWN
  ELSE IF -1 # indexOf(platformString, NameOfKey(types[i]))
    THEN parseInt(types[i])
  ELSE ForType_casesensitive(types, i + 1, platformString)

RECURSIVE ForType(_, _, _)
\* the loop over deviceTypes from the i-th key on, and the return after it
ForType(types, i, platformString) ==
  IF i > Len(types) THEN TYPE_UNKNOWN
  ELSE IF -1 # indexOf(toLowerCase(platformString), NameOfKey(types[i]))
    THEN parseInt(types[i])
  ELSE ForType(types, i + 1, platformString)

\* getType comparing the platform string as it was written
getType_casesensitive(arguments) ==
  IF Len(arguments) = 0 THEN Num(TYPE_UNKNOWN)
  ELSE LET platformString == Trim(Join(arguments, <<" ">>))
       IN IF platformString = <<>> THEN Num(TYPE_UNKNOWN)
          ELSE Num(ForType_casesensitive(ForInKeys(deviceTypes), 1, platformString))

getType(arguments) ==
  IF Len(arguments) = 0 THEN Num(TYPE_UNKNOWN)
  ELSE LET platformString == Trim(Join(arguments, <<" ">>))
       IN IF platformString = <<>> THEN Num(TYPE_UNKNOWN)
          ELSE Num(ForType(ForInKeys(deviceTypes), 1, platformString))

Words ==
  {<<"i", "P", "h", "O", "n", "E">>, <<"a", "s", "d", "f">>, <<>>, <<" ">>, <<"a", "n", "d", "R", "o", "i", "d">>, <<"I", "P", "A", "D">>, <<"w", "e", "b">>, <<"i", "p">>, <<"h", "o", "n", "e">>}
ArgumentLists == UNION {[1..n -> Words] : n \in 0..MaxArgs}

InitDevice ==
  /\ platform \in ArgumentLists
  /\ deviceType = Pending
  /\ CoreIdle /\ RandomIdle /\ MapIdle /\ ConfigIdle

CallGetType ==
  /\ deviceType' = getType(platform)
  /\ UNCHANGED platform
  /\ UNCHANGED <<versionVars, parseVars, snakeVars, randomVars, mapVars, configVars>>

NextDevice == CallGetType

SpecDevice == InitDevice /\ [][NextDevice]_vars

\* the same letter, whatever its case
SameLetter(c, d) ==
  \/ c = d
  \/ \E j \in 1..Len(LowerCase) :
       {c, d} = {LowerCase[j], UpperCase[j]}
\* name occurs in s as a substring, case ignored
OccursIn(name, s) ==
  \E i \in 0..(Len(s) - Len(name)) :
    \A j \in 1..Len(name) : SameLetter(s[i + j], name[j])
\* the device names by type code, as the specification lists them
ClaimedName(code) ==
  CASE code = 1 -> <<"i", "p", "h", "o", "n", "e">>
    [] code = 2 -> <<"i", "p", "a", "d">>
    [] code = 3 -> <<"a", "n", "d", "r", "o", "i", "d">>
    [] code = 4 -> <<"w", "e", "b">>

\* C14: getType returns 0 exactly when none of the names iphone, android,
\* ipad, web occurs, case ignored, in its arguments joined with spaces;
\* otherwise it returns the code of a device type whose name does occur.
C14_UnknownIffNoNameOccurs ==
  deviceType # Pending =>
    LET joined == Join(platform, <<" ">>)
    IN /\ deviceType.t = "number"
       /\ deviceType.v \in 0..4
       /\ deviceType.v = 0 <=> \A code \in 1..4 : ~OccursIn(ClaimedName(code), joined)
       /\ deviceType.v # 0 => OccursIn(ClaimedName(deviceType.v), joined)

\* getType("asdf", "iPhOnE") has returned TYPE_IPHONE
C14_Witness ==
  /\ platform = <<<<"a", "s", "d", "f">>, <<"i", "P", "h", "O", "n", "E">>>>
  /\ deviceType = Num(1)

\* C15: for a mapping input on which snake2camel returns, the output mapping
\* has exactly one entry for each non-callable entry of the input.
C15_NoEntryLost ==
  (SnakeCalled /\ snake.t = "object" /\ ~IsThrown(out)) =>
    /\ out.t = "object"
    /\ Len(out.v) =
         Cardinality({i \in 1..Len(snake.v) : ~isFunction(snake.v[i].v)})

(***************************************************************************)
(* mergeConfig (index, lines 189 to 197).  A config has the blocks all,    *)
(* test and development, each present or not; a block maps keys to strings.*)
(***************************************************************************)
\* the most entries a block of the config has
MaxBlock == 1

ALL == <<"a", "l", "l">>
TEST == <<"t", "e", "s", "t">>
DEVELOPMENT == <<"d", "e", "v", "e", "l", "o", "p", "m", "e", "n", "t">>
PRODUCTION == <<"p", "r", "o", "d", "u", "c", "t", "i", "o", "n">>

\* config[name]
Prop(c, name) ==
  CASE name = ALL -> c.all
    [] name = TEST -> c.test
    [] name = DEVELOPMENT -> c.development
    [] OTHER -> Undefined

RECURSIVE MergeFrom(_, _, _)
\* _.merge(object, source) from the i-th entry of source on: each value of
\* source is assigned to its key in object
MergeFrom(object, source, i) ==
  IF i > Len(source.v) THEN object
  ELSE MergeFrom(Obj(Put(object.v, source.v[i].k, source.v[i].v)), source, i + 1)

merge(object, source) == MergeFrom(object, source, 1)

\* config = config || {}
OrEmptyConfig(c) ==
  IF Truthy(c) THEN c
  ELSE [t |-> "object", all |-> Undefined, test |-> Undefined,
        development |-> Undefined]

\* what mergeConfig returns under process.env.NODE_ENV = nodeEnv
mergeConfig(c, nodeEnv) ==
  LET cfg == OrEmptyConfig(c)
      name == OrElse(nodeEnv, Str(DEVELOPMENT))
      env == OrElse(Prop(cfg, name.v), Obj(<<>>))
      all == OrElse(cfg.all, Obj(<<>>))
  IN merge(all, env)

\* the config after the call: _.merge has written into config.all
Written(c, nodeEnv) ==
  IF Truthy(c) /\ Truthy(c.all)
    THEN [c EXCEPT !.all = mergeConfig(c, nodeEnv)]
    ELSE c

BlockKeys == {<<"m", "y">>, <<"d", "b">>}
BlockValues == {Str(<<"d", "a", "t", "a">>), Str(<<"d", "a", "t", "a", "2">>)}
Blocks ==
  {Undefined} \cup
  UNION {{Obj([i \in 1..n |-> [k |-> ks[i], v |-> f[i]]]) :
            ks \in {x \in [1..n -> BlockKeys] :
                      \A i, j \in 1..n : i # j => x[i] # x[j]},
            f \in [1..n -> BlockValues]} : n \in 0..MaxBlock}
Configs ==
  {Undefined} \cup
  [t : {"object"}, all : Blocks, test : Blocks, development : Blocks]
NodeEnvs == {Undefined, Str(TEST), Str(DEVELOPMENT), Str(PRODUCTION)}

InitConfig ==
  /\ config \in Configs
  /\ config0 = config
  /\ envName = Undefined
  /\ merged = Pending
  /\ CoreIdle /\ RandomIdle /\ MapIdle /\ DeviceIdle

\* mergeConfig(config) while process.env.NODE_ENV is nodeEnv
CallMergeConfig(nodeEnv) ==
  /\ envName' = nodeEnv
  /\ merged' = mergeConfig(config, nodeEnv)
  /\ config' = Written(config, nodeEnv)
  /\ UNCHANGED config0
  /\ UNCHANGED <<versionVars, parseVars, snakeVars, randomVars, mapVars, deviceVars>>

NextConfig == \E nodeEnv \in NodeEnvs : CallMergeConfig(nodeEnv)

SpecConfig == InitConfig /\ [][NextConfig]_vars

\* C16: after any sequence of mergeConfig(config) calls the config holds what
\* the caller built, and the last call returned the caller's all block
\* overridden by the block of its environment only.
C16_ConfigUnchanged ==
  /\ config = config0
  /\ merged # Pending => merged = mergeConfig(config0, envName)

====
